---- MODULE Spec2Model ----
\* Entry lifecycle and review-approval workflow of the KEDB backend
\* (app/services/entry_service.py, app/services/review_service.py, the two
\* repositories they use and the endpoints that commit or roll back).
\*
\* The store is the PostgreSQL database behind one AsyncSession per request
\* (tests/conftest.py:19).  A request is a transaction: what it flushes is
\* invisible to every other request until db.commit(), an UPDATE of a row
\* waits while another open transaction holds an uncommitted UPDATE of that
\* row, and each statement reads the rows committed at the time it runs
\* (READ COMMITTED, the server default; no source file sets another level,
\* takes a lock or adds a WHERE status = 'pending' to an UPDATE).
\*
\* The specifications share every definition that models code:
\*   SpecSeq  the handlers executed one at a time, each as one action
\*            (the whole request, commit or rollback included);
\*   Spec     the same handlers as concurrent transactions, one statement
\*            per step.
\* SpecScenario, SpecEdit and SpecFrame serve requests one at a time as
\* SpecSeq does, for a fixed round trip, for a client that edits titles and
\* for a store that holds a second entry.
EXTENDS Integers, Sequences, FiniteSets, Bags, TLC

VARIABLES db, tx, last

vars == <<db, tx, last>>

----------------------------------------------------------------------------
\* Bounds of the model.

\* entries that may ever be created
MaxEntries == 1
\* reviews that may ever be created
MaxReviews == 2
\* participant rows that may ever be stored, over all reviews
MaxParts == 2
\* longest participants list a create_review request carries
MaxInitParts == 2
\* concurrent sessions
Procs == {"p1", "p2"}

----------------------------------------------------------------------------
\* Values.

NULL == "NULL"
UNSET == "UNSET"
EMPTY == ""

Users == {"alice", "bob"}
Roles == {"lead", "reviewer", "observer"}
\* No statement reads a participant's role; the requests of Spec and SpecSeq
\* carry this one.
SomeRole == "reviewer"
WorkflowStates == {"draft", "in_review", "published", "retired", "merged"}
Decisions == {"approved", "rejected", "changes_requested"}
ReviewStatuses == {"pending"} \cup Decisions
\* values of datetime.now()
Times == {"t1", "t2"}
\* values of an entry's editable content (title stands for title,
\* description, severity and root_cause)
Titles == {"a"}

EntryIds == 1..MaxEntries
ReviewIds == 1..MaxReviews

\* Python truthiness of an Optional[str]
Truthy(x) == x \notin {NULL, EMPTY}

VALID_WORKFLOW_TRANSITIONS_retired_draft ==
    [draft |-> {"in_review", "retired"},
     in_review |-> {"draft", "published", "retired"},
     published |-> {"retired", "merged"},
     retired |-> {"draft"},
     merged |-> {}]

VALID_WORKFLOW_TRANSITIONS ==
    [draft |-> {"in_review", "retired"},
     in_review |-> {"draft", "published", "retired"},
     published |-> {"retired", "merged"},
     retired |-> {},
     merged |-> {}]

\* the participants lists a request may carry: sequences of (user_id, role)
ParticipantData == [user_id : Users, role : {SomeRole}]
ParticipantLists == UNION {[1..n -> ParticipantData] : n \in 0..MaxInitParts}

----------------------------------------------------------------------------
\* Rows and the committed database.

\* a new Entry row: the nullable columns of the model default to NULL
NewEntryRow ==
    [workflow_state |-> NULL, approved_by |-> NULL, approved_at |-> NULL,
     merged_into_id |-> NULL, title |-> NULL]

\* no column written
NoEntryWrite ==
    [workflow_state |-> UNSET, approved_by |-> UNSET, approved_at |-> UNSET,
     title |-> UNSET]

Col(w, base) == IF w = UNSET THEN base ELSE w

\* a row after the columns of w are written to it
EntryAfter(w, row) ==
    [workflow_state |-> Col(w.workflow_state, row.workflow_state),
     approved_by |-> Col(w.approved_by, row.approved_by),
     approved_at |-> Col(w.approved_at, row.approved_at),
     merged_into_id |-> row.merged_into_id,
     title |-> Col(w.title, row.title)]

EmptyDb == [entries |-> <<>>, reviews |-> <<>>, parts |-> EmptyBag]

\* participant rows of review r whose user_id is u, with multiplicity
ParticipantRows(parts, r, u) ==
    {x \in BagToSet(parts) : x.review_id = r /\ x.user_id = u}

ParticipantCount(parts, r, u) ==
    LET rows == ParticipantRows(parts, r, u)
        RECURSIVE Sum(_)
        Sum(S) == IF S = {} THEN 0
                  ELSE LET x == CHOOSE y \in S : TRUE
                       IN CopiesIn(x, parts) + Sum(S \ {x})
    IN Sum(rows)

----------------------------------------------------------------------------
\* A request and the session (transaction) that serves it.

\* Requests: every field is present, the ones an operation does not take
\* are NULL (0 for an id, the empty list for participants).
Req(op, entry, review, user, status, role, plist, new_state, title) ==
    [op |-> op, entry |-> entry, review |-> review, user |-> user,
     status |-> status, role |-> role, plist |-> plist,
     new_state |-> new_state, title |-> title]

NoReq == Req("none", 0, 0, NULL, NULL, NULL, <<>>, NULL, NULL)

FirstPc(op) ==
    CASE op = "create_entry" -> "ce_insert"
      [] op = "create_review" -> "cr_load"
      [] op = "add_participant" -> "ap_load"
      [] op = "submit_decision" -> "sd_load"
      [] op = "delete_entry" -> "de_load"
      [] op = "transition_workflow" -> "tw_load"
      [] op = "update_entry" -> "ue_load"

\* A session: the request, the position in its handler (pc), the outcome
\* (res, and wrote: whether it had flushed a write when it ended), the entry
\* and review it works on (e, r), the Entry object its identity map holds
\* (ent, as loaded), and
\* its flushed, uncommitted writes: the columns written to entry e (wE; a
\* whole new row when insE), the status written to review r (wR; a new row
\* when insR), participant rows added (addP) and replaced (delP).
IdleTx ==
    [req |-> NoReq, pc |-> "idle", res |-> NULL, wrote |-> FALSE, e |-> 0,
     r |-> 0,
     ent |-> NewEntryRow, wE |-> NoEntryWrite, insE |-> FALSE, wR |-> UNSET,
     insR |-> FALSE, addP |-> EmptyBag, delP |-> EmptyBag]

\* the session of a request; newE and newR are the ids its INSERTs will get
NewTx(req, newE, newR) ==
    [IdleTx EXCEPT !.req = req, !.pc = FirstPc(req.op),
                   !.e = IF req.op = "create_entry" THEN newE ELSE 0,
                   !.r = IF req.op = "create_review" THEN newR ELSE 0]

InFlight(t) == t.pc \notin {"idle", "done"}

\* an exception leaves the service method at the statement being run
Raise(t, err) == [t EXCEPT !.res = err, !.pc = "raise"]

\* session t has flushed an INSERT or an UPDATE
Wrote(t) ==
    \/ t.insE \/ t.insR \/ t.wE /= NoEntryWrite \/ t.wR /= UNSET
    \/ t.addP /= EmptyBag

\* the request is over: the session keeps nothing but the outcome
Finished(t, res) ==
    [IdleTx EXCEPT !.req = t.req, !.pc = "done", !.res = res,
                   !.wrote = Wrote(t), !.e = t.e, !.r = t.r]

\* What a statement of session t reads: the committed rows and the
\* session's own flushed rows.
EntryExists(d, t, id) == id \in DOMAIN d.entries \/ (t.insE /\ t.e = id)

EntryRow(d, t, id) ==
    IF t.e = id /\ t.insE THEN EntryAfter(t.wE, NewEntryRow)
    ELSE IF t.e = id THEN EntryAfter(t.wE, d.entries[id])
    ELSE d.entries[id]

ReviewExists(d, t, id) == id \in DOMAIN d.reviews \/ (t.insR /\ t.r = id)

ReviewRow(d, t, id) ==
    IF t.r = id /\ t.insR THEN [entry_id |-> t.e, status |-> t.wR]
    ELSE IF t.r = id THEN [d.reviews[id] EXCEPT !.status = Col(t.wR, @)]
    ELSE d.reviews[id]

\* The review_participants table (the model class is app/models, outside
\* the files at hand): a row has an identity of its own next to review_id,
\* user_id, role and approved_at, and no rule makes (review_id, user_id)
\* unique, so the table is a bag of rows.  The rows after some are replaced
\* and some inserted:
StoredParticipants(parts, replaced, inserted) ==
    (parts (-) replaced) (+) inserted

Participants(d, t) == StoredParticipants(d.parts, t.delP, t.addP)

----------------------------------------------------------------------------
\* Repositories.  Each operator is one repository call of session t and
\* gives the session after it; the writes are flushed, not committed.

\* EntryRepository.create_with_symptoms: INSERT the entry (workflow_state is
\* "draft" in the data EntryService.create_entry passes)
create_with_symptoms(t, data) ==
    [t EXCEPT !.insE = TRUE,
              !.wE = [NoEntryWrite EXCEPT !.workflow_state = data.workflow_state,
                                          !.title = data.title]]

\* The unit of work UPDATEs the columns whose value differs from the one the
\* loaded object holds; an assignment of the value already held writes
\* nothing.
Changed(new, old) == IF new = old THEN UNSET ELSE new

update_workflow_state_always_stamps(t, new_state, approved_by, now) ==
    [t EXCEPT !.wE.workflow_state = Changed(new_state, t.ent.workflow_state),
              !.wE.approved_by = Changed(approved_by, t.ent.approved_by),
              !.wE.approved_at = now]

update_workflow_state_no_stamp(t, new_state, approved_by, now) ==
    [t EXCEPT !.wE.workflow_state = Changed(new_state, t.ent.workflow_state)]

update_workflow_state_clears_stamps(t, new_state, approved_by, now) ==
    IF Truthy(approved_by)
    THEN [t EXCEPT !.wE.workflow_state = Changed(new_state, t.ent.workflow_state),
                   !.wE.approved_by = Changed(approved_by, t.ent.approved_by),
                   !.wE.approved_at = now]
    ELSE [t EXCEPT !.wE.workflow_state = Changed(new_state, t.ent.workflow_state),
                   !.wE.approved_by = Changed(NULL, t.ent.approved_by),
                   !.wE.approved_at = Changed(NULL, t.ent.approved_at)]

\* EntryRepository.update_workflow_state on the entry the session loaded
\* (self.get returns the object of the identity map)
update_workflow_state(t, new_state, approved_by, now) ==
    IF Truthy(approved_by)
    THEN [t EXCEPT !.wE.workflow_state = Changed(new_state, t.ent.workflow_state),
                   !.wE.approved_by = Changed(approved_by, t.ent.approved_by),
                   !.wE.approved_at = now]
    ELSE [t EXCEPT !.wE.workflow_state = Changed(new_state, t.ent.workflow_state)]

\* BaseRepository.update on the loaded entry: the fields that are not None
update(t, data) ==
    IF data.title /= NULL
    THEN [t EXCEPT !.wE.title = Changed(data.title, t.ent.title)]
    ELSE t

ParticipantRow(r, data) ==
    [review_id |-> r, user_id |-> data.user_id, role |-> data.role,
     approved_at |-> NULL]

RECURSIVE ParticipantBag(_, _)
ParticipantBag(r, plist) ==
    IF plist = <<>> THEN EmptyBag
    ELSE SetToBag({ParticipantRow(r, Head(plist))})
         (+) ParticipantBag(r, Tail(plist))

\* ReviewRepository.create_with_participants: INSERT the review, then one
\* participant per element of the list
create_with_participants(t, review_data, participants) ==
    [t EXCEPT !.insR = TRUE, !.e = review_data.entry_id,
              !.wR = review_data.status,
              !.addP = ParticipantBag(t.r, participants)]

\* ReviewRepository.add_participant
add_participant_row(t, review_id, data) ==
    [t EXCEPT !.addP = @ (+) SetToBag({ParticipantRow(review_id, data)})]

\* ReviewRepository.update_status on the review the session loaded
update_status(t, new_status) == [t EXCEPT !.wR = new_status]

approve_by_participant_any_review(d, t, review_id, user_id, now) ==
    LET parts == Participants(d, t)
        rows == {x \in BagToSet(parts) : x.user_id = user_id}
        RECURSIVE Sum(_)
        Sum(S) == IF S = {} THEN 0
                  ELSE LET x == CHOOSE y \in S : TRUE
                       IN CopiesIn(x, parts) + Sum(S \ {x})
        n == Sum(rows)
    IN  IF n = 0 THEN t
        ELSE IF n > 1 THEN Raise(t, "MultipleResultsFound")
        ELSE LET row == CHOOSE x \in rows : TRUE
             IN  [t EXCEPT !.delP = @ (+) SetToBag({row}),
                           !.addP = @ (+) SetToBag({[row EXCEPT !.approved_at = now]})]

approve_by_participant_all_reviews(d, t, review_id, user_id, now) ==
    LET parts == Participants(d, t)
        n == ParticipantCount(parts, review_id, user_id)
        rows == {x \in BagToSet(parts) : x.user_id = user_id}
        RECURSIVE Stamp(_, _)
        Stamp(s, S) ==
            IF S = {} THEN s
            ELSE LET x == CHOOSE y \in S : TRUE
                     k == CopiesIn(x, parts)
                 IN  Stamp([s EXCEPT
                              !.delP = @ (+) [y \in {x} |-> k],
                              !.addP = @ (+) [y \in {[x EXCEPT !.approved_at = now]} |-> k]],
                           S \ {x})
    IN  IF n = 0 THEN t
        ELSE IF n > 1 THEN Raise(t, "MultipleResultsFound")
        ELSE Stamp(t, rows)

\* ReviewRepository.approve_by_participant: scalar_one_or_none() raises
\* MultipleResultsFound on two rows and gives None on no row
approve_by_participant(d, t, review_id, user_id, now) ==
    LET parts == Participants(d, t)
        n == ParticipantCount(parts, review_id, user_id)
    IN  IF n = 0 THEN t
        ELSE IF n > 1 THEN Raise(t, "MultipleResultsFound")
        ELSE LET row == CHOOSE x \in ParticipantRows(parts, review_id, user_id) : TRUE
             IN  [t EXCEPT !.delP = @ (+) SetToBag({row}),
                           !.addP = @ (+) SetToBag({[row EXCEPT !.approved_at = now]})]

----------------------------------------------------------------------------
\* Services.  Each operator gives the session after the next statement of
\* the service method it is in (t.pc); d is the committed database, now the
\* value of datetime.now() should the statement read the clock.

Goto(t, pc) == [t EXCEPT !.pc = pc]

create_entry_service_no_state(d, t, now) ==
    Goto(create_with_symptoms(t, [workflow_state |-> NULL,
                                  title |-> t.req.title]), "commit")

\* EntryService.create_entry
create_entry_service(d, t, now) ==
    Goto(create_with_symptoms(t, [workflow_state |-> "draft",
                                  title |-> t.req.title]), "commit")

update_entry_service_any_state(d, t, now) ==
    CASE t.pc = "ue_load" ->
           IF ~EntryExists(d, t, t.req.entry) THEN Raise(t, "NotFoundError")
           ELSE [t EXCEPT !.e = t.req.entry,
                          !.ent = EntryRow(d, t, t.req.entry),
                          !.pc = "ue_update"]
      [] t.pc = "ue_update" ->
           Goto(update(t, [title |-> t.req.title]), "commit")

\* EntryService.update_entry
update_entry_service(d, t, now) ==
    CASE t.pc = "ue_load" ->
           IF ~EntryExists(d, t, t.req.entry) THEN Raise(t, "NotFoundError")
           ELSE LET entry == EntryRow(d, t, t.req.entry)
                IN  IF entry.workflow_state \notin {"draft", "in_review"}
                    THEN Raise(t, "WorkflowError")
                    ELSE [t EXCEPT !.e = t.req.entry, !.ent = entry,
                                   !.pc = "ue_update"]
      [] t.pc = "ue_update" ->
           Goto(update(t, [title |-> t.req.title]), "commit")

delete_entry_service_no_update(d, t, now) ==
    CASE t.pc = "de_load" ->
           IF ~EntryExists(d, t, t.req.entry) THEN Raise(t, "NotFoundError")
           ELSE [t EXCEPT !.e = t.req.entry,
                          !.ent = EntryRow(d, t, t.req.entry),
                          !.pc = "de_update"]
      [] t.pc = "de_update" -> Goto(t, "commit")

\* EntryService.delete_entry
delete_entry_service(d, t, now) ==
    CASE t.pc = "de_load" ->
           IF ~EntryExists(d, t, t.req.entry) THEN Raise(t, "NotFoundError")
           ELSE [t EXCEPT !.e = t.req.entry,
                          !.ent = EntryRow(d, t, t.req.entry),
                          !.pc = "de_update"]
      [] t.pc = "de_update" ->
           Goto(update_workflow_state(t, "retired", NULL, now), "commit")

transition_workflow_service_approver_overrides(d, t, now) ==
    CASE t.pc = "tw_load" ->
           IF ~EntryExists(d, t, t.req.entry) THEN Raise(t, "NotFoundError")
           ELSE LET entry == EntryRow(d, t, t.req.entry)
                    valid_transitions ==
                        VALID_WORKFLOW_TRANSITIONS[entry.workflow_state]
                IN  IF t.req.new_state \notin valid_transitions
                       /\ ~Truthy(t.req.user)
                    THEN Raise(t, "WorkflowError")
                    ELSE [t EXCEPT !.e = t.req.entry, !.ent = entry,
                                   !.pc = "tw_update"]
      [] t.pc = "tw_update" ->
           Goto(update_workflow_state(t, t.req.new_state, t.req.user, now),
                "commit")

\* EntryService.transition_workflow
transition_workflow_service(d, t, now) ==
    CASE t.pc = "tw_load" ->
           IF ~EntryExists(d, t, t.req.entry) THEN Raise(t, "NotFoundError")
           ELSE LET entry == EntryRow(d, t, t.req.entry)
                    valid_transitions ==
                        VALID_WORKFLOW_TRANSITIONS[entry.workflow_state]
                IN  IF t.req.new_state \notin valid_transitions
                    THEN Raise(t, "WorkflowError")
                    ELSE [t EXCEPT !.e = t.req.entry, !.ent = entry,
                                   !.pc = "tw_update"]
      [] t.pc = "tw_update" ->
           Goto(update_workflow_state(t, t.req.new_state, t.req.user, now),
                "commit")

create_review_service_unchecked(d, t, now) ==
    CASE t.pc = "cr_load" ->
           IF ~EntryExists(d, t, t.req.entry) THEN Raise(t, "AttributeError")
           ELSE LET entry == EntryRow(d, t, t.req.entry)
                IN  IF entry.workflow_state /= "draft"
                    THEN Raise(t, "WorkflowError")
                    ELSE [t EXCEPT !.e = t.req.entry, !.ent = entry,
                                   !.pc = "cr_insert"]
      [] t.pc = "cr_insert" ->
           Goto(create_with_participants(
                    t, [entry_id |-> t.req.entry, status |-> "pending"],
                    t.req.plist),
                "cr_update_entry")
      [] t.pc = "cr_update_entry" ->
           Goto(update_workflow_state(t, "in_review", NULL, now), "commit")

create_review_service_in_review_too(d, t, now) ==
    CASE t.pc = "cr_load" ->
           IF ~EntryExists(d, t, t.req.entry) THEN Raise(t, "NotFoundError")
           ELSE LET entry == EntryRow(d, t, t.req.entry)
                IN  IF entry.workflow_state \notin {"draft", "in_review"}
                    THEN Raise(t, "WorkflowError")
                    ELSE [t EXCEPT !.e = t.req.entry, !.ent = entry,
                                   !.pc = "cr_insert"]
      [] t.pc = "cr_insert" ->
           Goto(create_with_participants(
                    t, [entry_id |-> t.req.entry, status |-> "pending"],
                    t.req.plist),
                "cr_update_entry")
      [] t.pc = "cr_update_entry" ->
           Goto(update_workflow_state(t, "in_review", NULL, now), "commit")

\* ReviewService.create_review
create_review_service(d, t, now) ==
    CASE t.pc = "cr_load" ->
           IF ~EntryExists(d, t, t.req.entry) THEN Raise(t, "NotFoundError")
           ELSE LET entry == EntryRow(d, t, t.req.entry)
                IN  IF entry.workflow_state /= "draft"
                    THEN Raise(t, "WorkflowError")
                    ELSE [t EXCEPT !.e = t.req.entry, !.ent = entry,
                                   !.pc = "cr_insert"]
      [] t.pc = "cr_insert" ->
           Goto(create_with_participants(
                    t, [entry_id |-> t.req.entry, status |-> "pending"],
                    t.req.plist),
                "cr_update_entry")
      [] t.pc = "cr_update_entry" ->
           Goto(update_workflow_state(t, "in_review", NULL, now), "commit")

add_participant_service_any_status(d, t, now) ==
    CASE t.pc = "ap_load" ->
           IF ~ReviewExists(d, t, t.req.review) THEN Raise(t, "NotFoundError")
           ELSE [t EXCEPT !.r = t.req.review, !.pc = "ap_insert"]
      [] t.pc = "ap_insert" ->
           Goto(add_participant_row(
                    t, t.req.review,
                    [user_id |-> t.req.user, role |-> t.req.role]),
                "commit")

\* ReviewService.add_participant
add_participant_service(d, t, now) ==
    CASE t.pc = "ap_load" ->
           IF ~ReviewExists(d, t, t.req.review) THEN Raise(t, "NotFoundError")
           ELSE IF ReviewRow(d, t, t.req.review).status /= "pending"
           THEN Raise(t, "ValidationError")
           ELSE [t EXCEPT !.r = t.req.review, !.pc = "ap_insert"]
      [] t.pc = "ap_insert" ->
           Goto(add_participant_row(
                    t, t.req.review,
                    [user_id |-> t.req.user, role |-> t.req.role]),
                "commit")

is_participant_unchecked(parts, review_id, user_id) == TRUE

\* ReviewService.submit_decision, the loop over review.participants: some
\* participant of the review has this user_id
is_participant(parts, review_id, user_id) ==
    ParticipantRows(parts, review_id, user_id) /= {}

submit_decision_service_revote(d, t, now) ==
    CASE t.pc = "sd_load" ->
           IF ~ReviewExists(d, t, t.req.review) THEN Raise(t, "NotFoundError")
           ELSE LET review == ReviewRow(d, t, t.req.review)
                IN  IF ~is_participant(Participants(d, t), t.req.review,
                                       t.req.user)
                    THEN Raise(t, "ValidationError")
                    ELSE [t EXCEPT !.r = t.req.review, !.e = review.entry_id,
                                   !.pc = "sd_update_status"]
      [] t.pc = "sd_update_status" ->
           Goto(update_status(t, t.req.status),
                IF t.req.status = "approved" THEN "sd_approve"
                ELSE "sd_get_entry")
      [] t.pc = "sd_approve" ->
           LET s == approve_by_participant(d, t, t.r, t.req.user, now)
           IN  IF s.pc = "raise" THEN s ELSE Goto(s, "sd_get_entry")
      [] t.pc = "sd_get_entry" ->
           [t EXCEPT !.ent = EntryRow(d, t, t.e), !.pc = "sd_update_entry"]
      [] t.pc = "sd_update_entry" ->
           Goto(IF t.req.status = "approved"
                THEN update_workflow_state(t, "published", t.req.user, now)
                ELSE update_workflow_state(t, "draft", NULL, now),
                "commit")

\* ReviewService.submit_decision
submit_decision_service(d, t, now) ==
    CASE t.pc = "sd_load" ->
           IF ~ReviewExists(d, t, t.req.review) THEN Raise(t, "NotFoundError")
           ELSE LET review == ReviewRow(d, t, t.req.review)
                IN  IF review.status /= "pending"
                    THEN Raise(t, "ValidationError")
                    ELSE IF ~is_participant(Participants(d, t), t.req.review,
                                            t.req.user)
                    THEN Raise(t, "ValidationError")
                    ELSE [t EXCEPT !.r = t.req.review, !.e = review.entry_id,
                                   !.pc = "sd_update_status"]
      [] t.pc = "sd_update_status" ->
           Goto(update_status(t, t.req.status),
                IF t.req.status = "approved" THEN "sd_approve"
                ELSE "sd_get_entry")
      [] t.pc = "sd_approve" ->
           LET s == approve_by_participant(d, t, t.r, t.req.user, now)
           IN  IF s.pc = "raise" THEN s ELSE Goto(s, "sd_get_entry")
      [] t.pc = "sd_get_entry" ->
           [t EXCEPT !.ent = EntryRow(d, t, t.e), !.pc = "sd_update_entry"]
      [] t.pc = "sd_update_entry" ->
           Goto(IF t.req.status = "approved"
                THEN update_workflow_state(t, "published", t.req.user, now)
                ELSE update_workflow_state(t, "draft", NULL, now),
                "commit")

Service(d, t, now) ==
    CASE t.req.op = "create_entry" -> create_entry_service(d, t, now)
      [] t.req.op = "update_entry" -> update_entry_service(d, t, now)
      [] t.req.op = "delete_entry" -> delete_entry_service(d, t, now)
      [] t.req.op = "transition_workflow" -> transition_workflow_service(d, t, now)
      [] t.req.op = "create_review" -> create_review_service(d, t, now)
      [] t.req.op = "add_participant" -> add_participant_service(d, t, now)
      [] t.req.op = "submit_decision" -> submit_decision_service(d, t, now)

----------------------------------------------------------------------------
\* Endpoints: try the service, commit; on any exception roll back.

\* db.commit(): the session's writes become the committed rows
Commit(d, t) ==
    [entries |->
        IF t.insE THEN (t.e :> EntryAfter(t.wE, NewEntryRow)) @@ d.entries
        ELSE IF t.wE /= NoEntryWrite
        THEN [d.entries EXCEPT ![t.e] = EntryAfter(t.wE, @)]
        ELSE d.entries,
     reviews |->
        IF t.insR THEN (t.r :> [entry_id |-> t.e, status |-> t.wR]) @@ d.reviews
        ELSE IF t.wR /= UNSET
        THEN [d.reviews EXCEPT ![t.r].status = t.wR]
        ELSE d.reviews,
     parts |-> StoredParticipants(d.parts, t.delP, t.addP)]

Rollback_keeps_flushed(d, t) == Commit(d, t)

\* db.rollback(): the session's writes are discarded
Rollback(d, t) == d

\* the session once everything it flushed is committed
AfterAutocommit(t) ==
    [t EXCEPT !.wE = NoEntryWrite, !.insE = FALSE, !.wR = UNSET,
              !.insR = FALSE, !.addP = EmptyBag, !.delP = EmptyBag]

Statement_autocommit(d, t, now, storeOk) ==
    IF ~storeOk
    THEN [db |-> Rollback(d, t), tx |-> Finished(t, "StoreError")]
    ELSE IF t.pc = "commit"
    THEN [db |-> Commit(d, t), tx |-> Finished(t, "ok")]
    ELSE LET s == Service(d, t, now)
         IN  IF s.pc = "raise"
             THEN [db |-> Rollback(d, t), tx |-> Finished(s, s.res)]
             ELSE [db |-> Commit(d, s), tx |-> AfterAutocommit(s)]

\* The next statement of the request session t serves; storeOk is whether the
\* store executes it (a failed statement raises, like any exception).
Statement(d, t, now, storeOk) ==
    IF ~storeOk
    THEN [db |-> Rollback(d, t), tx |-> Finished(t, "StoreError")]
    ELSE IF t.pc = "commit"
    THEN [db |-> Commit(d, t), tx |-> Finished(t, "ok")]
    ELSE LET s == Service(d, t, now)
         IN  IF s.pc = "raise"
             THEN [db |-> Rollback(d, t), tx |-> Finished(s, s.res)]
             ELSE [db |-> d, tx |-> s]

----------------------------------------------------------------------------
\* Ids and room: the model's bounds on what the store may hold.

\* the id an INSERT gets: the least one no row and no open session has
FreshId(ids, used) ==
    IF ids \ used = {} THEN 0
    ELSE CHOOSE i \in ids \ used : \A j \in ids \ used : i <= j

\* participant rows session t has flushed or is about to INSERT
PartsReserved(t) ==
    IF t.pc = "cr_insert" THEN Len(t.req.plist)
    ELSE IF t.pc = "ap_insert" THEN 1
    ELSE BagCardinality(t.addP) - BagCardinality(t.delP)

RECURSIVE SumReserved(_, _)
SumReserved(txs, S) ==
    IF S = {} THEN 0
    ELSE LET p == CHOOSE q \in S : TRUE
         IN  PartsReserved(txs[p]) + SumReserved(txs, S \ {p})

\* a request that is about to INSERT starts only while the bounds leave room
HasRoom(d, txs, t) ==
    /\ t.req.op = "create_entry" => t.e /= 0
    /\ t.pc = "cr_insert" => t.r /= 0
    /\ t.pc \in {"cr_insert", "ap_insert"} =>
          BagCardinality(d.parts) + SumReserved(txs, DOMAIN txs)
              + PartsReserved(t) <= MaxParts

NewEntryId(d, txs) ==
    FreshId(EntryIds, DOMAIN d.entries
                      \cup {txs[p].e : p \in {q \in DOMAIN txs : txs[q].insE
                                              \/ txs[q].pc = "ce_insert"}})

NewReviewId(d, txs) ==
    FreshId(ReviewIds, DOMAIN d.reviews
                       \cup {txs[p].r : p \in {q \in DOMAIN txs :
                                  InFlight(txs[q])
                                  /\ txs[q].req.op = "create_review"}})

----------------------------------------------------------------------------
\* The requests a client may send.

CreateEntryReqs ==
    {Req("create_entry", 0, 0, NULL, NULL, NULL, <<>>, NULL, title) :
        title \in Titles}

UpdateEntryReqs ==
    {Req("update_entry", e, 0, NULL, NULL, NULL, <<>>, NULL, title) :
        e \in EntryIds, title \in Titles \cup {NULL}}

DeleteEntryReqs ==
    {Req("delete_entry", e, 0, NULL, NULL, NULL, <<>>, NULL, NULL) :
        e \in EntryIds}

TransitionReqs ==
    {Req("transition_workflow", e, 0, u, NULL, NULL, <<>>, s, NULL) :
        e \in EntryIds, u \in Users \cup {NULL, EMPTY}, s \in WorkflowStates}

CreateReviewReqs ==
    {Req("create_review", e, 0, NULL, NULL, NULL, pl, NULL, NULL) :
        e \in EntryIds, pl \in ParticipantLists}

AddParticipantReqs ==
    {Req("add_participant", 0, r, u, NULL, role, <<>>, NULL, NULL) :
        r \in ReviewIds, u \in Users, role \in {SomeRole}}

SubmitDecisionReqs ==
    {Req("submit_decision", 0, r, u, st, NULL, <<>>, NULL, NULL) :
        r \in ReviewIds, u \in Users, st \in Decisions}

----------------------------------------------------------------------------
\* The clock.  datetime.now() is later than the time a row already holds:
\* a stamp never repeats the stored one.
Clock(stored) == IF stored = "t1" THEN "t2" ELSE "t1"

\* the clock's value for the next statement of session t
Now(d, t) ==
    IF t.pc = "sd_approve"
    THEN LET rows == ParticipantRows(Participants(d, t), t.r, t.req.user)
         IN  IF rows = {} THEN Clock(NULL)
             ELSE Clock((CHOOSE x \in rows : TRUE).approved_at)
    ELSE IF t.pc \in {"cr_update_entry", "sd_update_entry", "de_update",
                      "tw_update"} /\ EntryExists(d, t, t.e)
    THEN Clock(EntryRow(d, t, t.e).approved_at)
    ELSE Clock(NULL)

----------------------------------------------------------------------------
\* SpecSeq: requests served one at a time.

\* The request of session t run to its end.  The store executes k statements
\* and fails the next, if there is one.
RECURSIVE Run(_, _, _)
Run(d, t, k) ==
    IF t.pc = "done" THEN [db |-> d, tx |-> t]
    ELSE LET s == Statement(d, t, Now(d, t), k > 0)
         IN  Run(s.db, s.tx, IF k > 0 THEN k - 1 ELSE 0)

NoCall == [req |-> NoReq, res |-> NULL, wrote |-> FALSE, e |-> 0, r |-> 0,
           pre |-> EmptyDb]

\* the statements of the longest path through each handler, commit included
Statements(op) ==
    CASE op = "create_entry" -> 2
      [] op \in {"update_entry", "delete_entry", "transition_workflow",
                 "add_participant"} -> 3
      [] op = "create_review" -> 4
      [] op = "submit_decision" -> 6

\* One whole request, served while no other is: last records the request,
\* its outcome and the database it found.
Call(req) ==
    \E k \in 0..Statements(req.op) :
        LET t0 == NewTx(req, NewEntryId(db, tx), NewReviewId(db, tx))
            t1 == Statement(db, t0, Now(db, t0), TRUE).tx
            out == Run(db, t0, k)
        IN  /\ last = NoCall
            /\ HasRoom(db, tx, IF req.op = "create_entry" THEN t0 ELSE t1)
            /\ db' = out.db
            /\ last' = [req |-> req, res |-> out.tx.res,
                        wrote |-> out.tx.wrote, e |-> out.tx.e,
                        r |-> out.tx.r, pre |-> db]
            /\ UNCHANGED tx

create_entry == \E req \in CreateEntryReqs : Call(req)

update_entry == \E req \in UpdateEntryReqs : Call(req)

delete_entry == \E req \in DeleteEntryReqs : Call(req)

transition_workflow == \E req \in TransitionReqs : Call(req)

create_review == \E req \in CreateReviewReqs : Call(req)

add_participant == \E req \in AddParticipantReqs : Call(req)

submit_decision == \E req \in SubmitDecisionReqs : Call(req)

\* the response reaches the client; the next request may be served
Return ==
    /\ last /= NoCall
    /\ last' = NoCall
    /\ UNCHANGED <<db, tx>>

Init ==
    /\ db = EmptyDb
    /\ tx = [p \in Procs |-> IdleTx]
    /\ last = NoCall

NextSeq ==
    \/ create_entry
    \/ update_entry
    \/ delete_entry
    \/ transition_workflow
    \/ create_review
    \/ add_participant
    \/ submit_decision
    \/ Return

SpecSeq == Init /\ [][NextSeq]_vars

----------------------------------------------------------------------------
\* SpecScenario: a review round trip, request after request, the store
\* serving every statement.  An entry is created, a review is opened on it
\* with alice and bob as participants, bob asks for changes, a second review
\* is opened with alice as participant, alice approves.  The roles of the
\* three participant rows range over Roles; last also holds the roles (sc)
\* and the number of requests served (n).

ScenarioRoleChoices == [alice : Roles, bob : Roles, alice2 : Roles]

\* the requests of the round trip; the client addresses the entry and the
\* reviews by the ids the earlier responses carried
Scenario(sc) ==
    << Req("create_entry", 0, 0, NULL, NULL, NULL, <<>>, NULL, "a"),
       Req("create_review", 1, 0, NULL, NULL, NULL,
           << [user_id |-> "alice", role |-> sc.alice],
              [user_id |-> "bob", role |-> sc.bob] >>, NULL, NULL),
       Req("submit_decision", 0, 1, "bob", "changes_requested", NULL, <<>>,
           NULL, NULL),
       Req("create_review", 1, 0, NULL, NULL, NULL,
           << [user_id |-> "alice", role |-> sc.alice2] >>, NULL, NULL),
       Req("submit_decision", 0, 2, "alice", "approved", NULL, <<>>, NULL,
           NULL) >>

ScenarioStep ==
    LET req == Scenario(last.sc)[last.n + 1]
        t0 == NewTx(req, NewEntryId(db, tx), NewReviewId(db, tx))
        out == Run(db, t0, Statements(req.op))
    IN  /\ last.n < Len(Scenario(last.sc))
        /\ db' = out.db
        /\ last' = [req |-> req, res |-> out.tx.res, wrote |-> out.tx.wrote,
                    e |-> out.tx.e, r |-> out.tx.r, pre |-> db,
                    n |-> last.n + 1, sc |-> last.sc]
        /\ UNCHANGED tx

InitScenario ==
    /\ db = EmptyDb
    /\ tx = [p \in Procs |-> IdleTx]
    /\ last \in {[req |-> NoReq, res |-> NULL, wrote |-> FALSE, e |-> 0,
                   r |-> 0, pre |-> EmptyDb, n |-> 0, sc |-> sc] :
                      sc \in ScenarioRoleChoices}

NextScenario == ScenarioStep

SpecScenario == InitScenario /\ [][NextScenario]_vars

----------------------------------------------------------------------------
\* Spec: the requests as concurrent sessions, one statement per step.

\* an UPDATE of session t is flushed and uncommitted: t holds the row's lock
HoldsEntry(t) == InFlight(t) /\ ~t.insE /\ t.wE /= NoEntryWrite

HoldsReview(t) == InFlight(t) /\ ~t.insR /\ t.wR /= UNSET

\* the next statement of session p UPDATEs a row another session holds
Blocked(d, txs, p) ==
    LET t == txs[p]
        s == Service(d, t, Now(d, t))
    IN  /\ t.pc /= "commit"
        /\ s.pc /= "raise"
        /\ \E q \in DOMAIN txs \ {p} :
              \/ /\ HoldsEntry(s) /\ ~HoldsEntry(t)
                 /\ HoldsEntry(txs[q]) /\ txs[q].e = s.e
              \/ /\ HoldsReview(s) /\ ~HoldsReview(t)
                 /\ HoldsReview(txs[q]) /\ txs[q].r = s.r
              \/ \E row \in BagToSet(s.delP) :
                    ~BagIn(row, t.delP) /\ BagIn(row, txs[q].delP)

\* a session that ended is closed; the next request gets a new one
Closed(t) == IF t.pc = "done" THEN IdleTx ELSE t

\* Spec serves the review endpoints, and create_entry for an entry to
\* review.
Requests ==
    CreateEntryReqs \cup CreateReviewReqs \cup AddParticipantReqs
    \cup SubmitDecisionReqs

\* a client sends a request: a session opens and runs its first statement
Begin(p, req) ==
    LET t0 == NewTx(req, NewEntryId(db, tx), NewReviewId(db, tx))
        s == Statement(db, t0, Now(db, t0), TRUE)
    IN  /\ tx[p].pc = "idle"
        /\ HasRoom(db, tx, IF req.op = "create_entry" THEN t0 ELSE s.tx)
        /\ db' = s.db
        /\ tx' = [tx EXCEPT ![p] = Closed(s.tx)]
        /\ UNCHANGED last

\* the next statement of an open session: a service call, or the commit
Step(p) ==
    LET s == Statement(db, tx[p], Now(db, tx[p]), TRUE)
    IN  /\ InFlight(tx[p])
        /\ ~Blocked(db, tx, p)
        /\ db' = s.db
        /\ tx' = [tx EXCEPT ![p] = Closed(s.tx)]
        /\ UNCHANGED last

\* the store fails the next statement of an open session
StoreFailure(p) ==
    LET s == Statement(db, tx[p], Now(db, tx[p]), FALSE)
    IN  /\ InFlight(tx[p])
        /\ db' = s.db
        /\ tx' = [tx EXCEPT ![p] = Closed(s.tx)]
        /\ UNCHANGED last

Next ==
    \E p \in Procs :
        \/ \E req \in Requests : Begin(p, req)
        \/ Step(p)
        \/ StoreFailure(p)

Spec == Init /\ [][Next]_vars

----------------------------------------------------------------------------
\* SpecEdit: requests served one at a time, as in SpecSeq, by a client that
\* edits: PUT /entries/{id} carries a title the entry may not have yet, so
\* that an update writes.  The entry is moved through its states by
\* transition_workflow and create_review.

\* the titles an update may carry
EditTitles == Titles \cup {"b"}

EditEntryReqs ==
    {Req("update_entry", e, 0, NULL, NULL, NULL, <<>>, NULL, title) :
        e \in EntryIds, title \in EditTitles \cup {NULL}}

edit_entry == \E req \in EditEntryReqs : Call(req)

NextEdit ==
    \/ create_entry
    \/ edit_entry
    \/ transition_workflow
    \/ create_review
    \/ Return

SpecEdit == Init /\ [][NextEdit]_vars

----------------------------------------------------------------------------
\* SpecFrame: requests served one at a time, as in SpecSeq, on a store that
\* already holds a second entry, created and reviewed by earlier requests.
\* The review endpoints are served, and create_entry for an entry to review;
\* a request may address either entry and any review.

\* the ids the earlier requests were given
SeedEntry == MaxEntries + 1

SeedReview == MaxReviews + 1

\* the earlier requests: the entry is created, a review is opened on it with
\* alice as participant, alice approves
SeedRequests ==
    << Req("create_entry", 0, 0, NULL, NULL, NULL, <<>>, NULL, "a"),
       Req("create_review", SeedEntry, 0, NULL, NULL, NULL,
           << [user_id |-> "alice", role |-> SomeRole] >>, NULL, NULL),
       Req("submit_decision", 0, SeedReview, "alice", "approved", NULL, <<>>,
           NULL, NULL) >>

\* the database after the first n of the earlier requests, each served whole
RECURSIVE SeedDb(_)
SeedDb(n) ==
    IF n = 0 THEN EmptyDb
    ELSE LET req == SeedRequests[n]
             t0 == NewTx(req, SeedEntry, SeedReview)
         IN  Run(SeedDb(n - 1), t0, Statements(req.op)).db

InitFrame ==
    /\ db \in {SeedDb(n) : n \in 1..Len(SeedRequests)}
    /\ tx = [p \in Procs |-> IdleTx]
    /\ last = NoCall

FrameEntryIds == EntryIds \cup {SeedEntry}

FrameReviewIds == ReviewIds \cup {SeedReview}

create_review_of_any ==
    \E e \in FrameEntryIds, pl \in ParticipantLists :
        Call(Req("create_review", e, 0, NULL, NULL, NULL, pl, NULL, NULL))

add_participant_to_any ==
    \E r \in FrameReviewIds, u \in Users :
        Call(Req("add_participant", 0, r, u, NULL, SomeRole, <<>>, NULL, NULL))

submit_decision_on_any ==
    \E r \in FrameReviewIds, u \in Users, st \in Decisions :
        Call(Req("submit_decision", 0, r, u, st, NULL, <<>>, NULL, NULL))

NextFrame ==
    \/ create_entry
    \/ create_review_of_any
    \/ add_participant_to_any
    \/ submit_decision_on_any
    \/ Return

SpecFrame == InitFrame /\ [][NextFrame]_vars

----------------------------------------------------------------------------
\* Properties.  Those of SpecSeq read last: the request served, its outcome
\* and the database it found (last.pre), against the database it left (db).
\* A store failure ("StoreError") is a fault of the environment: a property
\* that names the error a request fails with is about the requests the store
\* served.

\* the transition table of the specification, as pairs (current, target)
LegalPairs ==
    {<<"draft", "in_review">>, <<"draft", "retired">>,
     <<"in_review", "draft">>, <<"in_review", "published">>,
     <<"in_review", "retired">>,
     <<"published", "retired">>, <<"published", "merged">>}

\* the reviews of entry e that are pending in database d
PendingReviews(d, e) ==
    {r \in DOMAIN d.reviews :
        d.reviews[r].entry_id = e /\ d.reviews[r].status = "pending"}

\* C1: transition_workflow on an entry whose state is current, asked for
\* target, is accepted (the entry's state becomes target) if and only if
\* (current, target) is in the table; otherwise it fails with WorkflowError
\* and changes nothing.  No transition out of retired or merged and no
\* self-transition is accepted.
C1_TransitionTable ==
    (/\ last.req.op = "transition_workflow"
     /\ last.req.entry \in DOMAIN last.pre.entries
     /\ last.res /= "StoreError")
    => LET current == last.pre.entries[last.req.entry].workflow_state
           target == last.req.new_state
       IN  /\ last.res = "ok" <=> <<current, target>> \in LegalPairs
           /\ last.res = "ok" =>
                 db.entries[last.req.entry].workflow_state = target
           /\ last.res /= "ok" => last.res = "WorkflowError" /\ db = last.pre
           /\ current \in {"retired", "merged"} \/ current = target =>
                 last.res = "WorkflowError"

\* a transition the table allows, published to merged, was accepted
C1_Witness ==
    /\ last.req.op = "transition_workflow"
    /\ last.req.entry \in DOMAIN last.pre.entries
    /\ last.pre.entries[last.req.entry].workflow_state = "published"
    /\ last.req.new_state = "merged"
    /\ last.res = "ok"
    /\ db.entries[last.req.entry].workflow_state = "merged"

\* C2: a submit_decision transaction commits its writes only if the review
\* is still pending in the committed database when it commits: of two
\* concurrent decisions on one pending review the second to commit fails
\* and overwrites nothing.
C2_OneDecisionWins ==
    [][\A p \in Procs :
          (/\ tx[p].req.op = "submit_decision"
           /\ tx[p].pc = "commit"
           /\ tx'[p] /= tx[p]
           /\ db' /= db)
          => db.reviews[tx[p].r].status = "pending"]_vars

\* C3: each entry has at most one pending review.
C3_OnePendingReview ==
    \A e \in DOMAIN db.entries : Cardinality(PendingReviews(db, e)) <= 1

\* C4: a request leaves the workflow_state of every entry it found retired
\* or merged as it was.
C4_TerminalStates ==
    \A e \in DOMAIN last.pre.entries :
        last.pre.entries[e].workflow_state \in {"retired", "merged"}
        => db.entries[e].workflow_state = last.pre.entries[e].workflow_state

\* C5: a create_review or submit_decision request that fails, at whatever
\* statement and for whatever reason, leaves the database exactly as it
\* found it: no review, participant or entry write of the request is
\* committed.
C5_AllOrNothing ==
    (last.req.op \in {"create_review", "submit_decision"} /\ last.res /= "ok")
    => db = last.pre

\* a submit_decision request failed in the store after it had flushed writes
C5_Witness ==
    /\ last.req.op = "submit_decision"
    /\ last.res = "StoreError"
    /\ last.wrote
    /\ db = last.pre

\* C6: a review becomes visible to other sessions only as a pending review
\* of an entry that is in_review in the same committed database, and the
\* commit of a create_review request makes both visible at once; the state
\* with the review inserted and the entry still draft is never committed.
C6_CreateReviewAtomic ==
    [][/\ \A r \in DOMAIN db'.reviews \ DOMAIN db.reviews :
             /\ db'.reviews[r].status = "pending"
             /\ db'.entries[db'.reviews[r].entry_id].workflow_state
                    = "in_review"
       /\ \A p \in Procs :
             (/\ tx[p].req.op = "create_review"
              /\ tx[p].pc = "commit"
              /\ tx'[p] /= tx[p]
              /\ db' /= db)
             => tx[p].r \in DOMAIN db'.reviews \ DOMAIN db.reviews]_vars

\* a create_review session has inserted its review, has not yet written the
\* entry, which is still draft for everyone else, and another session is
\* open
C6_Witness ==
    \E p \in Procs, q \in Procs :
        /\ p /= q
        /\ tx[p].req.op = "create_review"
        /\ tx[p].pc = "cr_update_entry"
        /\ tx[p].insR
        /\ tx[p].r \notin DOMAIN db.reviews
        /\ db.entries[tx[p].e].workflow_state = "draft"
        /\ InFlight(tx[q])

\* C7: create_review on an existing entry that is in_review, published,
\* retired or merged fails, with WorkflowError, and changes nothing.
C7_CreateReviewNotDraft ==
    (/\ last.req.op = "create_review"
     /\ last.req.entry \in DOMAIN last.pre.entries
     /\ last.pre.entries[last.req.entry].workflow_state
            \in {"in_review", "published", "retired", "merged"})
    => /\ last.res /= "ok"
       /\ last.res /= "StoreError" => last.res = "WorkflowError"
       /\ db = last.pre

\* create_review was refused on a published entry
C7_Witness ==
    /\ last.req.op = "create_review"
    /\ last.req.entry \in DOMAIN last.pre.entries
    /\ last.pre.entries[last.req.entry].workflow_state = "published"
    /\ last.req.plist /= <<>>
    /\ last.res = "WorkflowError"

\* C8: after a successful submit_decision "approved" by u, the review (which
\* was pending, with u a participant) is approved, its entry is published
\* with approved_by = u and approved_at set, and u's participant row has
\* approved_at set.
C8_Approved ==
    (/\ last.req.op = "submit_decision"
     /\ last.req.status = "approved"
     /\ last.res = "ok")
    => LET r == last.req.review
           u == last.req.user
           e == last.pre.reviews[r].entry_id
       IN  /\ last.pre.reviews[r].status = "pending"
           /\ db.reviews[r].status = "approved"
           /\ db.entries[e].workflow_state = "published"
           /\ db.entries[e].approved_by = u
           /\ db.entries[e].approved_at /= NULL
           /\ ParticipantRows(db.parts, r, u) /= {}
           /\ \A x \in ParticipantRows(db.parts, r, u) : x.approved_at /= NULL

\* an approval succeeded on a review with a second participant
C8_Witness ==
    /\ last.req.op = "submit_decision"
    /\ last.req.status = "approved"
    /\ last.res = "ok"
    /\ \E x \in BagToSet(db.parts) :
          /\ x.review_id = last.req.review
          /\ x.user_id /= last.req.user
          /\ x.approved_at = NULL

\* C9: after a successful submit_decision "rejected" or "changes_requested"
\* the review has that status, its entry is draft with approved_by and
\* approved_at as before, and no participant row has changed.
C9_Rejected ==
    (/\ last.req.op = "submit_decision"
     /\ last.req.status \in {"rejected", "changes_requested"}
     /\ last.res = "ok")
    => LET r == last.req.review
           e == last.pre.reviews[r].entry_id
       IN  /\ db.reviews[r].status = last.req.status
           /\ db.entries[e].workflow_state = "draft"
           /\ db.entries[e].approved_by = last.pre.entries[e].approved_by
           /\ db.entries[e].approved_at = last.pre.entries[e].approved_at
           /\ db.parts = last.pre.parts

\* a rejection succeeded on a review of an entry that carried stamps
C9_Witness ==
    /\ last.req.op = "submit_decision"
    /\ last.req.status = "rejected"
    /\ last.res = "ok"
    /\ LET e == last.pre.reviews[last.req.review].entry_id
       IN  /\ last.pre.entries[e].approved_by /= NULL
           /\ db.entries[e].workflow_state = "draft"

\* C10: submit_decision on a pending review by a user with no participant
\* row of that review fails, with ValidationError, and changes nothing.
C10_NonParticipant ==
    (/\ last.req.op = "submit_decision"
     /\ last.req.review \in DOMAIN last.pre.reviews
     /\ last.pre.reviews[last.req.review].status = "pending"
     /\ ParticipantRows(last.pre.parts, last.req.review, last.req.user) = {})
    => /\ last.res /= "ok"
       /\ last.res /= "StoreError" => last.res = "ValidationError"
       /\ db = last.pre

\* a decision was refused on a pending review whose participants are others
C10_Witness ==
    /\ last.req.op = "submit_decision"
    /\ last.req.review \in DOMAIN last.pre.reviews
    /\ last.pre.reviews[last.req.review].status = "pending"
    /\ ParticipantRows(last.pre.parts, last.req.review, last.req.user) = {}
    /\ \E x \in BagToSet(last.pre.parts) : x.review_id = last.req.review
    /\ last.res = "ValidationError"

\* C11: submit_decision on a review that is already approved, rejected or
\* changes_requested fails, with ValidationError, for every user and every
\* requested status, and changes nothing: not the review, the participants,
\* the entry's state or its stamps.
C11_AlreadyDecided ==
    (/\ last.req.op = "submit_decision"
     /\ last.req.review \in DOMAIN last.pre.reviews
     /\ last.pre.reviews[last.req.review].status \in Decisions)
    => /\ last.res /= "ok"
       /\ last.res /= "StoreError" => last.res = "ValidationError"
       /\ db = last.pre

\* a participant of an approved review asked for another status and was
\* refused
C11_Witness ==
    /\ last.req.op = "submit_decision"
    /\ last.req.review \in DOMAIN last.pre.reviews
    /\ last.pre.reviews[last.req.review].status = "approved"
    /\ last.req.status = "rejected"
    /\ ParticipantRows(last.pre.parts, last.req.review, last.req.user) /= {}
    /\ last.res = "ValidationError"

\* C12: a submit_decision that succeeds found the reviewed entry in_review:
\* the entry goes in_review -> published or in_review -> draft, never from
\* draft, published, retired or merged.
C12_DecisionFromInReview ==
    (last.req.op = "submit_decision" /\ last.res = "ok")
    => LET e == last.pre.reviews[last.req.review].entry_id
       IN  last.pre.entries[e].workflow_state = "in_review"

\* C13: in the round trip every request succeeds; the entry is draft after
\* its creation, in_review with R pending after R is opened, draft with R
\* changes_requested after bob's decision, in_review with R2 pending after
\* R2 is opened, and after alice's approval R2 is approved, the entry is
\* published with approved_by = alice and R is still changes_requested.
C13_RoundTrip ==
    /\ last.n >= 1 => last.res = "ok"
    /\ last.n >= 1 => 1 \in DOMAIN db.entries
    /\ last.n = 1 => db.entries[1].workflow_state = "draft"
    /\ last.n = 2 =>
          /\ db.entries[1].workflow_state = "in_review"
          /\ DOMAIN db.reviews = {1}
          /\ db.reviews[1] = [entry_id |-> 1, status |-> "pending"]
          /\ ParticipantRows(db.parts, 1, "alice") /= {}
          /\ ParticipantRows(db.parts, 1, "bob") /= {}
    /\ last.n = 3 =>
          /\ db.reviews[1].status = "changes_requested"
          /\ db.entries[1].workflow_state = "draft"
    /\ last.n = 4 =>
          /\ DOMAIN db.reviews = {1, 2}
          /\ db.reviews[2] = [entry_id |-> 1, status |-> "pending"]
          /\ db.entries[1].workflow_state = "in_review"
    /\ last.n = 5 =>
          /\ db.reviews[2].status = "approved"
          /\ db.entries[1].workflow_state = "published"
          /\ db.entries[1].approved_by = "alice"
          /\ db.reviews[1].status = "changes_requested"

\* the round trip with alice as lead and bob as reviewer has run to its end
C13_Witness ==
    /\ last.n = 5
    /\ last.sc.alice = "lead"
    /\ last.sc.bob = "reviewer"
    /\ last.req.op = "submit_decision"
    /\ last.req.user = "alice"
    /\ db.reviews[2].status = "approved"

\* C14: an entry's approved_by is null exactly when its approved_at is
\* null, and a request that writes either of them leaves the entry
\* published: no request stamps an entry while moving it to another state.
C14_StampsOnlyOnPublish ==
    /\ \A e \in DOMAIN db.entries :
          db.entries[e].approved_by = NULL <=> db.entries[e].approved_at = NULL
    /\ \A e \in DOMAIN last.pre.entries :
          (\/ db.entries[e].approved_by /= last.pre.entries[e].approved_by
           \/ db.entries[e].approved_at /= last.pre.entries[e].approved_at)
          => db.entries[e].workflow_state = "published"

\* C15: a published entry has approved_by and approved_at set, whichever
\* request published it.
C15_PublishedIsStamped ==
    \A e \in DOMAIN db.entries :
        db.entries[e].workflow_state = "published"
        => /\ db.entries[e].approved_by /= NULL
           /\ db.entries[e].approved_at /= NULL

\* C16: submit_decision on a pending review by a user who has a participant
\* row of that review succeeds, whatever the decision, the role and the
\* participants create_review and add_participant stored.
C16_AnyParticipantDecides ==
    (/\ last.req.op = "submit_decision"
     /\ last.req.review \in DOMAIN last.pre.reviews
     /\ last.pre.reviews[last.req.review].status = "pending"
     /\ ParticipantRows(last.pre.parts, last.req.review, last.req.user) /= {}
     /\ last.res /= "StoreError")
    => last.res = "ok"

\* C17: add_participant fails with NotFoundError when the review does not
\* exist and with ValidationError when it is not pending; either way no
\* participant is added and nothing else changes.
C17_AddParticipantRefused ==
    last.req.op = "add_participant"
    => /\ last.req.review \notin DOMAIN last.pre.reviews
          => /\ last.res /= "ok"
             /\ last.res /= "StoreError" => last.res = "NotFoundError"
             /\ db = last.pre
       /\ (/\ last.req.review \in DOMAIN last.pre.reviews
           /\ last.pre.reviews[last.req.review].status /= "pending")
          => /\ last.res /= "ok"
             /\ last.res /= "StoreError" => last.res = "ValidationError"
             /\ db = last.pre

\* a participant was refused on a decided review, while another review of
\* the store does not exist yet
C17_Witness ==
    /\ last.req.op = "add_participant"
    /\ last.req.review \in DOMAIN last.pre.reviews
    /\ last.pre.reviews[last.req.review].status = "changes_requested"
    /\ last.res = "ValidationError"
    /\ DOMAIN db.reviews /= ReviewIds

\* C18: create_review on an absent entry and submit_decision on an absent
\* review fail with NotFoundError and write nothing.
C18_AbsentIsNotFound ==
    (\/ /\ last.req.op = "create_review"
        /\ last.req.entry \notin DOMAIN last.pre.entries
     \/ /\ last.req.op = "submit_decision"
        /\ last.req.review \notin DOMAIN last.pre.reviews)
    => /\ last.res /= "ok"
       /\ last.res /= "StoreError" => last.res = "NotFoundError"
       /\ db = last.pre

\* a decision on a review that does not exist was refused, in a store that
\* holds another review
C18_Witness ==
    /\ last.req.op = "submit_decision"
    /\ last.req.review \notin DOMAIN last.pre.reviews
    /\ last.pre.reviews /= <<>>
    /\ last.res = "NotFoundError"

\* C19: the entry a successful create_entry stores and returns is a new
\* entry in state draft.
C19_CreatedAsDraft ==
    (last.req.op = "create_entry" /\ last.res = "ok")
    => /\ last.e \notin DOMAIN last.pre.entries
       /\ last.e \in DOMAIN db.entries
       /\ db.entries[last.e].workflow_state = "draft"

\* an entry was created
C19_Witness ==
    /\ last.req.op = "create_entry"
    /\ last.res = "ok"
    /\ last.e \in DOMAIN db.entries
    /\ db.entries[last.e].title = last.req.title

\* C20: delete_entry removes no record; on an existing entry it succeeds and
\* leaves the entry stored, in state retired; on an absent entry it fails
\* with NotFoundError and changes nothing.
C20_SoftDelete ==
    last.req.op = "delete_entry"
    => /\ DOMAIN db.entries = DOMAIN last.pre.entries
       /\ (last.req.entry \in DOMAIN last.pre.entries
           /\ last.res /= "StoreError")
          => /\ last.res = "ok"
             /\ db.entries[last.req.entry].workflow_state = "retired"
       /\ last.req.entry \notin DOMAIN last.pre.entries
          => /\ last.res /= "ok"
             /\ last.res /= "StoreError" => last.res = "NotFoundError"
             /\ db = last.pre

\* an entry under review was deleted and is still stored, retired
C20_Witness ==
    /\ last.req.op = "delete_entry"
    /\ last.req.entry \in DOMAIN last.pre.entries
    /\ last.pre.entries[last.req.entry].workflow_state = "in_review"
    /\ last.res = "ok"
    /\ db.entries[last.req.entry].workflow_state = "retired"

\* C21: transition_workflow to a target the table does not allow from the
\* entry's state fails, with WorkflowError, and leaves the entry's state and
\* stamps as they were, with or without an approver; on an absent entry it
\* fails with NotFoundError.
C21_IllegalTransitionRefused ==
    last.req.op = "transition_workflow"
    => /\ (/\ last.req.entry \in DOMAIN last.pre.entries
           /\ <<last.pre.entries[last.req.entry].workflow_state,
                last.req.new_state>> \notin LegalPairs)
          => /\ last.res /= "ok"
             /\ last.res /= "StoreError" => last.res = "WorkflowError"
             /\ db.entries[last.req.entry] = last.pre.entries[last.req.entry]
             /\ db = last.pre
       /\ last.req.entry \notin DOMAIN last.pre.entries
          => /\ last.res /= "ok"
             /\ last.res /= "StoreError" => last.res = "NotFoundError"
             /\ db = last.pre

\* a transition in_review -> merged was refused although an approver came
\* with it
C21_Witness ==
    /\ last.req.op = "transition_workflow"
    /\ last.req.entry \in DOMAIN last.pre.entries
    /\ last.pre.entries[last.req.entry].workflow_state = "in_review"
    /\ last.req.new_state = "merged"
    /\ last.req.user = "alice"
    /\ last.res = "WorkflowError"

\* the approver the last request hands to update_workflow_state
Approver ==
    IF last.req.op = "transition_workflow" THEN last.req.user
    ELSE IF last.req.op = "submit_decision" /\ last.req.status = "approved"
    THEN last.req.user
    ELSE NULL

\* the entry the last request hands to update_workflow_state
StateWritten ==
    IF last.req.op \in {"transition_workflow", "delete_entry", "create_review"}
    THEN last.req.entry
    ELSE last.pre.reviews[last.req.review].entry_id

\* C22: a successful request that changes an entry's state through
\* update_workflow_state stamps approved_by and approved_at exactly when it
\* passes an approver: with one, approved_by is the approver and approved_at
\* is set; without one, both are as they were.
C22_StampIffApprover ==
    (/\ last.req.op \in {"transition_workflow", "delete_entry",
                         "create_review", "submit_decision"}
     /\ last.res = "ok")
    => LET e == StateWritten
       IN  IF Truthy(Approver)
           THEN /\ db.entries[e].approved_by = Approver
                /\ db.entries[e].approved_at /= NULL
           ELSE /\ db.entries[e].approved_by = last.pre.entries[e].approved_by
                /\ db.entries[e].approved_at = last.pre.entries[e].approved_at

\* a stamped, published entry was retired without an approver and kept its
\* stamps
C22_Witness ==
    /\ last.req.op = "transition_workflow"
    /\ last.req.user = NULL
    /\ last.res = "ok"
    /\ last.pre.entries[last.req.entry].workflow_state = "published"
    /\ last.pre.entries[last.req.entry].approved_by = "alice"
    /\ db.entries[last.req.entry].workflow_state = "retired"
    /\ db.entries[last.req.entry].approved_by = "alice"
    /\ db.entries[last.req.entry].approved_at /= NULL

\* the participant rows of review r in database d
RowsOf(d, r) == {x \in BagToSet(d.parts) : x.review_id = r}

\* the number of participant rows of review r in database d
CountOf(d, r) ==
    LET RECURSIVE Sum(_)
        Sum(S) == IF S = {} THEN 0
                  ELSE LET x == CHOOSE y \in S : TRUE
                       IN CopiesIn(x, d.parts) + Sum(S \ {x})
    IN  Sum(RowsOf(d, r))

\* C23: a step that adds a participant row to a stored review finds that
\* review pending in the committed database: no participant is added to a
\* review that has been decided.
C23_ParticipantsFrozen ==
    [][\A r \in DOMAIN db.reviews :
          CountOf(db', r) > CountOf(db, r)
          => db.reviews[r].status = "pending"]_vars

\* C25: a create_review transaction commits its review only if the entry is
\* still draft in the committed database when it commits: of two concurrent
\* create_review requests on one draft entry at most one succeeds.
C25_OneReviewOpens ==
    [][\A p \in Procs :
          (/\ tx[p].req.op = "create_review"
           /\ tx[p].pc = "commit"
           /\ tx'[p] /= tx[p]
           /\ db' /= db)
          => db.entries[tx[p].e].workflow_state = "draft"]_vars

\* C27: every participant row with approved_at set belongs to a review whose
\* status is approved, and the rows of one review with approved_at set are
\* all of one user.
C27_ApprovedAtOnlyWithApproval ==
    \A x \in BagToSet(db.parts) :
        x.approved_at /= NULL
        => /\ db.reviews[x.review_id].status = "approved"
           /\ \A y \in BagToSet(db.parts) :
                 (y.review_id = x.review_id /\ y.approved_at /= NULL)
                 => y.user_id = x.user_id

\* C24: an entry has a pending review exactly when its workflow_state is
\* in_review.
C24_PendingIffInReview ==
    \A e \in DOMAIN db.entries :
        (PendingReviews(db, e) /= {})
        <=> (db.entries[e].workflow_state = "in_review")

\* the approved reviews of entry e in database d
ApprovedReviews(d, e) ==
    {r \in DOMAIN d.reviews :
        d.reviews[r].entry_id = e /\ d.reviews[r].status = "approved"}

\* C26: a published entry has an approved review, and its approved_by is
\* the user_id of a participant of an approved review of the entry.
C26_PublishedIsPeerApproved ==
    \A e \in DOMAIN db.entries :
        db.entries[e].workflow_state = "published"
        => \E r \in ApprovedReviews(db, e) :
              \E x \in RowsOf(db, r) : x.user_id = db.entries[e].approved_by

\* C28: a merged entry has merged_into_id set to the id of another stored
\* entry.
C28_MergedHasTarget ==
    \A e \in DOMAIN db.entries :
        db.entries[e].workflow_state = "merged"
        => /\ db.entries[e].merged_into_id /= NULL
           /\ db.entries[e].merged_into_id \in DOMAIN db.entries \ {e}

\* C29: update_entry succeeds only on an entry that is draft or in_review;
\* on a published, retired or merged entry it fails with WorkflowError, on
\* an absent entry with NotFoundError; whatever the outcome, the entry's
\* workflow_state, approved_by and approved_at and every review and
\* participant are as they were.
C29_UpdateEntryFrame ==
    last.req.op = "update_entry"
    => LET e == last.req.entry
           stored == e \in DOMAIN last.pre.entries
       IN  /\ last.res = "ok"
              => /\ stored
                 /\ last.pre.entries[e].workflow_state
                        \in {"draft", "in_review"}
           /\ (stored /\ last.pre.entries[e].workflow_state
                             \in {"published", "retired", "merged"})
              => /\ last.res /= "ok"
                 /\ last.res /= "StoreError" => last.res = "WorkflowError"
           /\ ~stored
              => /\ last.res /= "ok"
                 /\ last.res /= "StoreError" => last.res = "NotFoundError"
           /\ DOMAIN db.entries = DOMAIN last.pre.entries
           /\ stored
              => /\ db.entries[e].workflow_state
                        = last.pre.entries[e].workflow_state
                 /\ db.entries[e].approved_by = last.pre.entries[e].approved_by
                 /\ db.entries[e].approved_at = last.pre.entries[e].approved_at
           /\ db.reviews = last.pre.reviews
           /\ db.parts = last.pre.parts

\* an entry under review, stamped, with a pending review and a participant,
\* was given a new title
C29_Witness ==
    /\ last.req.op = "update_entry"
    /\ last.res = "ok"
    /\ last.pre.entries[last.req.entry].workflow_state = "in_review"
    /\ last.pre.entries[last.req.entry].approved_by = "alice"
    /\ PendingReviews(last.pre, last.req.entry) /= {}
    /\ last.pre.parts /= EmptyBag
    /\ last.pre.entries[last.req.entry].title = "a"
    /\ db.entries[last.req.entry].title = "b"

\* the review the last request acts on: the one create_review opens, or the
\* one add_participant or submit_decision names
ActsOnReview ==
    IF last.req.op = "create_review" THEN last.r ELSE last.req.review

\* the entry the last request acts on: the one create_review names, or the
\* entry of the review acted on
ActsOnEntry ==
    IF last.req.op = "create_review" THEN last.req.entry
    ELSE IF ActsOnReview \in DOMAIN last.pre.reviews
    THEN last.pre.reviews[ActsOnReview].entry_id
    ELSE 0

\* C30: create_review, add_participant and submit_decision, acting on review
\* R of entry E, leave the workflow_state, approved_by and approved_at of
\* every other entry and the status and participant rows of every other
\* review as they were, whatever the outcome.
C30_ReviewOpsFrame ==
    last.req.op \in {"create_review", "add_participant", "submit_decision"}
    => /\ \A e \in DOMAIN last.pre.entries \ {ActsOnEntry} :
             /\ e \in DOMAIN db.entries
             /\ db.entries[e].workflow_state
                    = last.pre.entries[e].workflow_state
             /\ db.entries[e].approved_by = last.pre.entries[e].approved_by
             /\ db.entries[e].approved_at = last.pre.entries[e].approved_at
       /\ \A r \in DOMAIN last.pre.reviews \ {ActsOnReview} :
             /\ r \in DOMAIN db.reviews
             /\ db.reviews[r].status = last.pre.reviews[r].status
             /\ RowsOf(db, r) = RowsOf(last.pre, r)
             /\ \A x \in RowsOf(db, r) :
                   CopiesIn(x, db.parts) = CopiesIn(x, last.pre.parts)

\* alice approved a review of one entry while the other entry was under
\* review with alice as participant of its pending review
C30_Witness ==
    /\ last.req.op = "submit_decision"
    /\ last.req.status = "approved"
    /\ last.req.user = "alice"
    /\ last.res = "ok"
    /\ \E e \in DOMAIN last.pre.entries \ {ActsOnEntry} :
          /\ last.pre.entries[e].workflow_state = "in_review"
          /\ \E r \in PendingReviews(last.pre, e) :
                \E x \in RowsOf(last.pre, r) : x.user_id = "alice"
    /\ db.entries[ActsOnEntry].workflow_state = "published"
    /\ db.reviews[ActsOnReview].status = "approved"

====
